---- MODULE Spec2Model ----
(***************************************************************************)
(* Model of the patient-registration application's data-access layer       *)
(* (db/DbManager: initDatabase, initSchema, registerPatient,               *)
(* getAllPatients, searchPatientsByName, executeQuery) and of the patient  *)
(* service that wraps it.                                                  *)
(*                                                                         *)
(* Text values are sequences of one-character strings, so that ILIKE       *)
(* matching, trimming and ordering are computed character by character.    *)
(* SQL NULL / JavaScript null is the one-element sequence NULL.            *)
(* The embedded engine (PGlite behind a worker) is the environment: its    *)
(* statements act atomically on the stored catalog and rows, and any       *)
(* statement may fail with an injected storage fault.                      *)
(***************************************************************************)
EXTENDS Integers, Sequences, FiniteSets, TLC

\* ---------------------------------------------------------------- bounds
\* Concurrent callers of the data-access layer inside one tab.
NumProcs == 2
\* Rows the SERIAL sequence may hand out before registrations stop.
MaxRows == 2
\* Storage / worker faults the environment may inject in one behaviour.
MaxFaults == 2
\* Page loads (module instances of DbManager) over one persistent storage.
MaxLoads == 2
\* Submit callbacks of the form controller that may be in flight at once.
MaxInflight == 2
\* Success-clear timers of the form controller that may be pending at once.
MaxTimers == 2
\* Longest email text handed to validatePatientForm.
MaxEmailLen == 5
\* Data-access calls the patient listing page may await at once.
MaxPending == 2
\* executeQuery calls the query console makes in one visit.
MaxCalls == 3

Procs == 1..NumProcs

Range(sq) == { sq[i] : i \in DOMAIN sq }

\* ---------------------------------------------------------------- text
NULL == <<"NULL">>

Digits == {"0", "1"}

\* Code point of a character (the engine's default text ordering is
\* modelled as code-point order).
Code(c) ==
  CASE c = "%" -> 37
    [] c = "0" -> 48
    [] c = "1" -> 49
    [] c = "A" -> 65
    [] c = "B" -> 66
    [] c = "_" -> 95
    [] c = "a" -> 97
    [] c = "b" -> 98
    [] OTHER -> 0

\* Case folding used by ILIKE.
Lower(c) ==
  CASE c = "A" -> "a"
    [] c = "B" -> "b"
    [] OTHER -> c

RECURSIVE StrLess(_, _)
StrLess(a, b) ==
  IF b = <<>> THEN FALSE
  ELSE IF a = <<>> THEN TRUE
  ELSE IF Code(Head(a)) < Code(Head(b)) THEN TRUE
  ELSE IF Code(Head(a)) > Code(Head(b)) THEN FALSE
  ELSE StrLess(Tail(a), Tail(b))

\* ORDER BY last_name, first_name (ascending): r1 may precede r2.
OrderKeyLeq_firstName(r1, r2) ==
  \/ StrLess(r1.first_name, r2.first_name)
  \/ /\ r1.first_name = r2.first_name
     /\ (StrLess(r1.last_name, r2.last_name) \/ r1.last_name = r2.last_name)
OrderKeyLeq(r1, r2) ==
  \/ StrLess(r1.last_name, r2.last_name)
  \/ /\ r1.last_name = r2.last_name
     /\ (StrLess(r1.first_name, r2.first_name) \/ r1.first_name = r2.first_name)

\* Every sequence the engine may return for "SELECT ... ORDER BY last_name,
\* first_name" over the row set S: each row once, keys ascending, ties in
\* any order.
OrderedResults(S) ==
  { s \in [1..Cardinality(S) -> S] :
      /\ \A i, j \in 1..Cardinality(S) : i # j => s[i] # s[j]
      /\ \A i, j \in 1..Cardinality(S) : i < j => OrderKeyLeq(s[i], s[j]) }

\* PostgreSQL LIKE with ILIKE's case folding: % matches any run of
\* characters, _ matches exactly one character.
RECURSIVE ILike(_, _)
ILike(s, pat) ==
  IF pat = <<>> THEN s = <<>>
  ELSE IF Head(pat) = "%"
    THEN ILike(s, Tail(pat)) \/ (s # <<>> /\ ILike(Tail(s), pat))
  ELSE /\ s # <<>>
       /\ (Head(pat) = "_" \/ Lower(Head(pat)) = Lower(Head(s)))
       /\ ILike(Tail(s), Tail(pat))

\* The search pattern built by searchPatientsByName: `%${searchTerm}%`.
LikePattern_bare(term) == term
LikePattern(term) == <<"%">> \o term \o <<"%">>

\* The parameter list searchPatientsByName binds to $1, $2.
SearchParams(term) == << LikePattern(term), LikePattern(term) >>

\* WHERE first_name ILIKE $1 OR last_name ILIKE $2
SearchWhere(r, params) ==
  \/ (r.first_name # NULL /\ ILike(r.first_name, params[1]))
  \/ (r.last_name # NULL /\ ILike(r.last_name, params[2]))

\* s contains t as a literal substring, compared case-insensitively.
ContainsFolded(s, t) ==
  \E i \in 0..(Len(s) - Len(t)) :
    \A j \in 1..Len(t) : Lower(s[i + j]) = Lower(t[j])

\* ---------------------------------------------------------------- records
TextFields == {"first_name", "last_name", "date_of_birth", "gender",
               "email", "phone", "address", "allergies", "medical_notes"}
NumericFields == {"height_cm", "weight_kg"}
RequiredFields == {"first_name", "last_name", "date_of_birth", "gender"}
OptionalFields == {"email", "phone", "address", "height_cm", "weight_kg",
                   "allergies", "medical_notes"}
\* Columns introduced after the original release; initSchema adds them.
MigratedCols == {"height_cm", "weight_kg", "allergies", "medical_notes"}

\* JavaScript `v || null` on a string or null.
OrNull(v) == IF v = <<>> \/ v = NULL THEN NULL ELSE v
\* JavaScript `v ?? null` on a string or null: only null/undefined is replaced.
Coalesce(v) == IF v = NULL THEN NULL ELSE v

\* The parameter list registerPatient binds to $1..$11.
BindParams(d) ==
  [first_name    |-> d.first_name,
   last_name     |-> d.last_name,
   date_of_birth |-> d.date_of_birth,
   gender        |-> d.gender,
   email         |-> OrNull(d.email),
   phone         |-> OrNull(d.phone),
   address       |-> OrNull(d.address),
   height_cm     |-> Coalesce(d.height_cm),
   weight_kg     |-> Coalesce(d.weight_kg),
   allergies     |-> OrNull(d.allergies),
   medical_notes |-> OrNull(d.medical_notes)]

\* The engine accepts a REAL parameter that is NULL or a non-empty digit run.
IsRealInput(v) ==
  v = NULL \/ (v # <<>> /\ \A i \in 1..Len(v) : v[i] \in Digits)

\* Value the engine stores for a REAL input: leading zeros carry no value.
RECURSIVE ParseReal(_)
ParseReal(v) ==
  IF v = NULL THEN NULL
  ELSE IF Len(v) > 1 /\ Head(v) = "0" THEN ParseReal(Tail(v))
  ELSE v

\* The row INSERT ... RETURNING id stores for bound parameters b: the SERIAL
\* id, the columns as the engine holds them, created_at from the DEFAULT.
StoredRow(b, id, now) ==
  [id            |-> id,
   first_name    |-> b.first_name,
   last_name     |-> b.last_name,
   date_of_birth |-> b.date_of_birth,
   gender        |-> b.gender,
   email         |-> b.email,
   phone         |-> b.phone,
   address       |-> b.address,
   height_cm     |-> ParseReal(b.height_cm),
   weight_kg     |-> ParseReal(b.weight_kg),
   allergies     |-> b.allergies,
   medical_notes |-> b.medical_notes,
   created_at    |-> now]

\* id SERIAL: the sequence's next value; it never looks at the table.
SerialId_count(seqNext, rs) == Cardinality(rs) + 1
SerialId(seqNext, rs) == seqNext

InsertRow_replace(rs, r) == {x \in rs : x.last_name # r.last_name} \cup {r}
InsertRow(rs, r) == rs \cup {r}

\* ---------------------------------------------------------------- inputs
MkPatient(fn, ln, h, w, em) ==
  [first_name |-> fn, last_name |-> ln, date_of_birth |-> <<"1">>,
   gender |-> <<"a">>, email |-> em, phone |-> <<>>, address |-> <<>>,
   height_cm |-> h, weight_kg |-> w, allergies |-> <<>>,
   medical_notes |-> <<"b">>]

\* Form records handed to registerPatient (all fields are strings, as the
\* registration form holds them).
PatientInputs ==
  { MkPatient(<<"a">>, <<"b">>, <<"1">>, <<"1">>, <<>>),
    MkPatient(<<"b">>, <<"A", "b">>, <<"0", "1">>, <<"1">>, <<"a">>),
    MkPatient(<<"A">>, <<"b">>, <<>>, <<"1">>, <<>>) }

SearchTerms == { <<>>, <<"a">>, <<"B">>, <<"_">>, <<"%">> }

\* Statements typed into the query console.
SelectStmt == "SELECT * FROM patients"
DeleteStmt == "DELETE FROM patients"
UpdateStmt == "UPDATE patients SET first_name = 'b'"
BadStmt    == "SELEC"
Statements == {SelectStmt, DeleteStmt, UpdateStmt, BadStmt}

\* Messages of injected storage / worker faults (an Error may carry an
\* empty message).
FaultMessages == {"storage unavailable", ""}

\* ---------------------------------------------------------------- outcomes
\* What a call settles with.  conn is the connection initDatabase returned
\* (0: none); data the rows returned; success/error the console envelope
\* (error <<>> is null, <<m>> the message m); message the rejection's
\* Error.message.
Outcome(st, c, rs, ok, err, msg) ==
  [status |-> st, conn |-> c, data |-> rs, success |-> ok, error |-> err,
   message |-> msg]

Rejected(e) == Outcome("rejected", 0, <<>>, FALSE, <<>>, e.message)

\* initDatabase: `return db`.
InitResolved(c) == Outcome("resolved", c, <<>>, TRUE, <<>>, "")
\* patientService.registerPatient resolves to void.
RegisterResolved == Outcome("resolved", 0, <<>>, TRUE, <<>>, "")
\* getAllPatients / searchPatientsByName: `return result.rows || []`.
RowsResolved(rs) == Outcome("resolved", 0, rs, TRUE, <<>>, "")
\* executeQuery: { success: true, data: result.rows || [], error: null }.
ExecuteQueryOk(rs) == Outcome("resolved", 0, rs, TRUE, <<>>, "")

\* executeQuery's catch: the envelope with error.message or the fallback.
ExecuteQueryCatch_rethrow(e) == Rejected(e)
ExecuteQueryCatch(e) ==
  Outcome("resolved", 0, <<>>, FALSE,
          << IF e.message # "" THEN e.message
             ELSE "An error occurred while executing the query" >>, "")

\* patientService.registerPatient's catch: a new Error with a fixed text.
ServiceRegisterCatch(e) ==
  [message |-> "Could not register patient. Please try again."]

\* How each operation settles when initDatabase or its statement throws e.
OnFailure(o, e) ==
  CASE o = "init"     -> Rejected(e)
    [] o = "register" -> Rejected(ServiceRegisterCatch(e))
    [] o = "getAll"   -> Rejected(e)
    [] o = "search"   -> Rejected(e)
    [] o = "exec"     -> ExecuteQueryCatch(e)

NoCause == [where |-> "none", message |-> ""]
NoQuery == [sql |-> "", params |-> <<>>]

\* The statement each data operation sends once it holds the connection.
InsertSql == "INSERT INTO patients (...) VALUES ($1..$11) RETURNING id"
GetAllSql == "SELECT * FROM patients ORDER BY last_name, first_name"
SearchSql == "SELECT * FROM patients WHERE first_name ILIKE $1 OR last_name ILIKE $2 ORDER BY last_name, first_name"

QueryOf(o, a) ==
  CASE o = "register" -> [sql |-> InsertSql, params |-> BindParams(a)]
    [] o = "getAll"   -> [sql |-> GetAllSql, params |-> <<>>]
    [] o = "search"   -> [sql |-> SearchSql, params |-> SearchParams(a)]
    [] o = "exec"     -> [sql |-> a, params |-> <<>>]
    [] OTHER          -> NoQuery

\* `if (!db)` in initDatabase.
DbIsUnset_always(d) == TRUE
DbIsUnset(d) == d = 0

\* ---------------------------------------------------------------- engine
\* initSchema's statements, in order: 1 CREATE TABLE IF NOT EXISTS; 2,4,6,8
\* the catalog look-ups for height_cm, weight_kg, allergies, medical_notes;
\* 3,5,7,9 the matching ALTER TABLE ADD COLUMN; 10 CREATE INDEX IF NOT EXISTS.
LastSchemaStep == 10
SchemaCol(k) ==
  CASE k \in {2, 3} -> "height_cm"
    [] k \in {4, 5} -> "weight_kg"
    [] k \in {6, 7} -> "allergies"
    [] k \in {8, 9} -> "medical_notes"
    [] OTHER        -> ""

\* The engine's answer to statement k: an error message ("" when it succeeds).
SchemaError(k, cat) ==
  IF k = 1 THEN ""
  ELSE IF ~cat.table THEN "relation \"patients\" does not exist"
  ELSE IF k \in {3, 5, 7, 9} /\ SchemaCol(k) \in cat.cols
    THEN "column already exists"
  ELSE ""

\* A schema set-up that drops and recreates the table on every start.
SchemaEffect_recreate(k, cat) ==
  IF k = 1 THEN [table |-> TRUE, cols |-> MigratedCols, index |-> FALSE]
  ELSE IF k = LastSchemaStep THEN [cat EXCEPT !.index = TRUE]
  ELSE cat

\* The catalog after statement k succeeded.
SchemaEffect(k, cat) ==
  IF k = 1 THEN
    IF cat.table THEN cat
    ELSE [table |-> TRUE, cols |-> MigratedCols, index |-> cat.index]
  ELSE IF k \in {3, 5, 7, 9} THEN [cat EXCEPT !.cols = @ \cup {SchemaCol(k)}]
  ELSE IF k = LastSchemaStep THEN [cat EXCEPT !.index = TRUE]
  ELSE cat

\* initSchema without the catalog look-ups' guard: every ALTER is sent.
NextSchemaStep_unguarded(k, cat) == k + 1

\* The statement initSchema sends after statement k returned, given the
\* catalog the look-up saw: `if (rows.length === 0)` sends the ALTER.
NextSchemaStep(k, cat) ==
  IF k \in {2, 4, 6, 8} /\ SchemaCol(k) \in cat.cols THEN k + 2 ELSE k + 1

\* The engine's answer to registerPatient's INSERT ("" when it is accepted).
InsertError(b, cat, rs, id) ==
  IF ~cat.table THEN "relation \"patients\" does not exist"
  ELSE IF ~(MigratedCols \subseteq cat.cols) THEN "column does not exist"
  ELSE IF ~IsRealInput(b.height_cm) \/ ~IsRealInput(b.weight_kg)
    THEN "invalid input syntax for type real"
  ELSE IF \E f \in RequiredFields : b[f] = NULL
    THEN "null value violates not-null constraint"
  ELSE IF \E r \in rs : r.id = id
    THEN "duplicate key value violates unique constraint"
  ELSE ""

\* Rows a console statement returns, in any order the engine likes.
AnyOrderResults(S) ==
  { s \in [1..Cardinality(S) -> S] :
      \A i, j \in 1..Cardinality(S) : i # j => s[i] # s[j] }

\* Stored rows after a console statement.
ConsoleEffect(sql, rs) ==
  CASE sql = DeleteStmt -> {}
    [] sql = UpdateStmt -> { [r EXCEPT !.first_name = <<"b">>] : r \in rs }
    [] OTHER            -> rs

ConsoleError(sql, cat) ==
  IF sql = BadStmt THEN "syntax error at or near \"SELEC\""
  ELSE IF ~cat.table THEN "relation \"patients\" does not exist"
  ELSE ""

\* ---------------------------------------------------------------- validation
\* Characters JavaScript's trim() strips and the regex class \s matches.
WhiteSpace == {" ", "\t", "\n"}

\* String.prototype.trim(): the text without leading and trailing white space.
RECURSIVE TrimStart(_)
TrimStart(s) ==
  IF s # <<>> /\ Head(s) \in WhiteSpace THEN TrimStart(Tail(s)) ELSE s

RECURSIVE TrimEnd(_)
TrimEnd(s) ==
  IF s # <<>> /\ s[Len(s)] \in WhiteSpace
    THEN TrimEnd(SubSeq(s, 1, Len(s) - 1)) ELSE s

Trim(s) == TrimEnd(TrimStart(s))

\* The character class [^\s@].
EmailChar(c) == c \notin WhiteSpace /\ c # "@"

\* s[a..b] matches [^\s@]+ .
EmailRun(s, a, b) == a <= b /\ \A k \in a..b : EmailChar(s[k])

\* A looser email test: something before an "@" and something after it.
EmailRegexTest_noDot(s) ==
  \E i \in 1..Len(s) : s[i] = "@" /\ i > 1 /\ i < Len(s)

\* /^[^\s@]+@[^\s@]+\.[^\s@]+$/.test(s): i is the place of the "@", j the
\* place of the "." the pattern's \. matches.
EmailRegexTest(s) ==
  \E i, j \in 1..Len(s) :
    /\ s[i] = "@" /\ s[j] = "."
    /\ EmailRun(s, 1, i - 1)
    /\ EmailRun(s, i + 1, j - 1)
    /\ EmailRun(s, j + 1, Len(s))

\* The error messages of validatePatientForm.
ErrFirstName == "First name is required."
ErrLastName  == "Last name is required."
ErrBirth     == "Date of birth is required."
ErrGender    == "Gender is required."
ErrEmail     == "Invalid email format."

\* The fields validatePatientForm's `if`s can put into newErrors.
FailedChecks(fd) ==
  { f \in {"first_name", "last_name", "date_of_birth"} : Trim(fd[f]) = <<>> }
    \cup (IF fd.gender = <<>> THEN {"gender"} ELSE {})
    \cup (IF fd.email # <<>> /\ ~EmailRegexTest(fd.email)
            THEN {"email"} ELSE {})

\* validatePatientForm(formData): newErrors, a mapping from the failed
\* fields to their messages.
ValidatePatientForm(fd) ==
  [ f \in FailedChecks(fd) |->
      CASE f = "first_name"    -> ErrFirstName
        [] f = "last_name"     -> ErrLastName
        [] f = "date_of_birth" -> ErrBirth
        [] f = "gender"        -> ErrGender
        [] OTHER               -> ErrEmail ]

\* Characters of the email texts tried.
EmailAlphabet == {"a", "@", ".", " "}

RECURSIVE TextsUpTo(_, _)
TextsUpTo(A, n) ==
  IF n = 0 THEN {<<>>}
  ELSE LET shorter == TextsUpTo(A, n - 1) IN
         shorter \cup { Append(t, c) : t \in shorter, c \in A }

\* A record as the registration form holds it, with the given fields.
MkCandidate(fn, ln, dob, g, em, ph) ==
  [first_name |-> fn, last_name |-> ln, date_of_birth |-> dob, gender |-> g,
   email |-> em, phone |-> ph, address |-> <<>>, height_cm |-> <<>>,
   weight_kg |-> <<>>, allergies |-> <<>>, medical_notes |-> <<>>]

\* Records handed to validatePatientForm: every combination of empty,
\* white-space and filled required fields with a few emails, and every
\* email text over the alphabet with the other fields all filled or all empty.
Candidates ==
  { MkCandidate(fn, ln, dob, g, em, ph) :
      fn \in {<<>>, <<" ">>, <<" ", "a">>},
      ln \in {<<>>, <<"\t", " ">>, <<"a">>},
      dob \in {<<>>, <<" ">>, <<"1">>},
      g \in {<<>>, <<" ">>, <<"a">>},
      em \in {<<>>, <<"a">>, <<"a", "@", "a">>, <<"a", "@", "a", ".", "a">>},
      ph \in {<<>>, <<"a">>} }
  \cup { MkCandidate(<<"a">>, <<"a">>, <<"1">>, <<"a">>, em, <<>>) :
           em \in TextsUpTo(EmailAlphabet, MaxEmailLen) }
  \cup { MkCandidate(<<>>, <<>>, <<>>, <<>>, em, <<>>) :
           em \in TextsUpTo(EmailAlphabet, MaxEmailLen) }

\* ---------------------------------------------------------------- form controller
\* useForm(initialState, validator, onSubmitCallback) as the registration
\* page instantiates it.  A controller state is the record of the hook's
\* four useState cells; each handler is the state it leaves behind.
InitialFormData ==
  [first_name |-> <<>>, last_name |-> <<>>, date_of_birth |-> <<>>,
   gender |-> <<>>, email |-> <<>>, phone |-> <<>>, address |-> <<>>,
   height_cm |-> <<>>, weight_kg |-> <<>>, allergies |-> <<>>,
   medical_notes |-> <<>>]

\* useState<Errors<T>>({}): no key at all.
NoErrors == [f \in {} |-> ""]

\* The value `undefined`, which handleChange writes under a cleared key.
Undefined == "undefined"

InitialFormState ==
  [formData |-> InitialFormData, errors |-> NoErrors,
   isSubmitting |-> FALSE, submitSuccess |-> FALSE]

\* `if (errors[name])`: the key holds a non-empty message.
ErrorShown(errs, name) ==
  name \in DOMAIN errs /\ errs[name] \notin {Undefined, ""}

\* ({ ...prev, [name]: undefined })
ClearError(errs, name) ==
  [f \in DOMAIN errs \cup {name} |-> IF f = name THEN Undefined ELSE errs[f]]

\* handleChange that re-validates the whole form on every edit.
HandleChangeState_revalidate(s, name, value) ==
  [s EXCEPT !.formData = [@ EXCEPT ![name] = value],
            !.errors = ValidatePatientForm([s.formData EXCEPT ![name] = value])]

\* handleChange(e) with e.target = {name, value}.
HandleChangeState(s, name, value) ==
  [s EXCEPT !.formData = [@ EXCEPT ![name] = value],
            !.errors = IF ErrorShown(@, name) THEN ClearError(@, name) ELSE @]

\* validateForm that accepts everything.
ValidateForm_always(newErrors) == TRUE

\* validateForm's result: Object.keys(newErrors).length === 0.
ValidateForm(newErrors) == DOMAIN newErrors = {}

\* handleSubmit up to its await: validateForm() stores the validator's
\* result; when it is empty, setIsSubmitting(true), setSubmitSuccess(false).
HandleSubmitState(s) ==
  LET newErrors == ValidatePatientForm(s.formData) IN
    IF ValidateForm(newErrors)
      THEN [s EXCEPT !.errors = newErrors, !.isSubmitting = TRUE,
                     !.submitSuccess = FALSE]
      ELSE [s EXCEPT !.errors = newErrors]

\* A success path that leaves the entered values in the form.
SubmitResolvedState_keepValues(s) ==
  [s EXCEPT !.submitSuccess = TRUE, !.isSubmitting = FALSE]

\* handleSubmit after the callback resolved: try block, then finally.
SubmitResolvedState(s) ==
  [s EXCEPT !.submitSuccess = TRUE, !.formData = InitialFormData,
            !.isSubmitting = FALSE]

\* A failure path without the finally block.
SubmitRejectedState_noFinally(s) == s

\* handleSubmit after the callback rejected: catch (log only), then finally.
SubmitRejectedState(s) == [s EXCEPT !.isSubmitting = FALSE]

\* The setTimeout callback: setSubmitSuccess(false).
SuccessTimerState(s) == [s EXCEPT !.submitSuccess = FALSE]

\* A reset that leaves the submitting flag alone.
ResetFormState_keepSubmitting(s) ==
  [formData |-> InitialFormData, errors |-> NoErrors,
   isSubmitting |-> s.isSubmitting, submitSuccess |-> FALSE]

\* resetForm().
ResetFormState(s) ==
  [formData |-> InitialFormData, errors |-> NoErrors,
   isSubmitting |-> FALSE, submitSuccess |-> FALSE]

\* setFormData(u), which the hook returns to its caller: u is a new
\* value, or (updater) a function of the previous value, here
\* prev => ({ ...prev, ...u.value }).  No other cell is written.
SetFormDataState(s, u) ==
  [s EXCEPT !.formData =
     IF u.updater
       THEN [f \in DOMAIN s.formData |->
               IF f \in DOMAIN u.value THEN u.value[f] ELSE s.formData[f]]
       ELSE u.value]

\* The programmatic update tried: an updater on a validated field.
FormDataArgs ==
  { [updater |-> TRUE, value |-> [first_name |-> <<"a">>]] }

\* What the user types into the form: field name and new value.
FormEdits ==
  { <<"first_name", <<"a">>>>, <<"first_name", <<>>>>,
    <<"last_name", <<"a">>>>, <<"last_name", <<>>>>,
    <<"date_of_birth", <<"1">>>>, <<"gender", <<"a">>>>,
    <<"email", <<"a">>>>, <<"email", <<"a", "@", "a", ".", "a">>>>,
    <<"email", <<>>>> }

\* ---------------------------------------------------------------- DatabaseProvider
\* The provider's three useState cells; `phase` is where its mount effect
\* stands: "mount" (not yet run), "await" (inside await initDatabase()),
\* "done".  error is <<>> for null, else the one-element tuple of the text.
InitialProvider ==
  [isLoading |-> TRUE, isInitialized |-> FALSE, error |-> <<>>,
   phase |-> "mount"]

\* initializeHealthHubDatabase up to its await.
ProviderEffectState(s) ==
  [s EXCEPT !.isLoading = TRUE, !.isInitialized = FALSE, !.error = <<>>,
            !.phase = "await"]

\* After initDatabase() resolved: try block, then finally.
ProviderResolvedState(s) ==
  [s EXCEPT !.isInitialized = TRUE, !.isLoading = FALSE, !.phase = "done"]

ProviderDefaultError ==
  "Failed to initialize the HealthHub database. Please check your setup."

\* A catch that also marks the database as initialised.
ProviderRejectedState_initialized(s, err) ==
  [s EXCEPT !.error = << err.message >>, !.isInitialized = TRUE,
            !.isLoading = FALSE, !.phase = "done"]

\* After initDatabase() rejected with err: catch, then finally.
ProviderRejectedState(s, err) ==
  [s EXCEPT !.error = << IF err.message # "" THEN err.message
                          ELSE ProviderDefaultError >>,
            !.isLoading = FALSE, !.phase = "done"]

\* ---------------------------------------------------------------- PatientRecords
\* What the page renders for a provider state: the first `if` shows the
\* loading view, the second the failure view, otherwise the records.
RecordsView(prov) ==
  IF prov.isLoading \/ ~prov.isInitialized THEN "loading"
  ELSE IF prov.error # <<>> THEN "failed"
  ELSE "main"

\* The data-access calls the page awaits, oldest first: none.
NoRequest == << >>

\* The list sq without its i-th element.
RemoveAt(sq, i) == SubSeq(sq, 1, i - 1) \o SubSeq(sq, i + 1, Len(sq))

\* The page's useState cells; `pending` are the data-access calls it awaits,
\* `effectRan` whether the load effect has fired, `exported` the file the
\* last download produced (<<>>: none), `ev` the handler that ran last.
InitialRecords ==
  [patients |-> <<>>, searchTerm |-> <<>>, isLoading |-> TRUE,
   fetchError |-> <<>>, pending |-> NoRequest, effectRan |-> FALSE,
   exported |-> <<>>, ev |-> "mount"]

\* loadPatients() up to its await.
LoadPatientsState(s) ==
  [s EXCEPT !.isLoading = TRUE, !.fetchError = <<>>,
            !.pending = Append(@, [fn |-> "getAllPatients", term |-> <<>>])]

\* A search handler that sends whatever was typed.
HandleSearchState_noBlankCheck(s) ==
  [s EXCEPT !.isLoading = TRUE, !.fetchError = <<>>,
            !.pending = Append(@, [fn |-> "searchPatientsByName",
                                   term |-> s.searchTerm]),
            !.ev = "search"]

\* handleSearch() up to its await.
HandleSearchState(s) ==
  IF Trim(s.searchTerm) = <<>>
    THEN [LoadPatientsState(s) EXCEPT !.ev = "search"]
    ELSE [s EXCEPT !.isLoading = TRUE, !.fetchError = <<>>,
                   !.pending = Append(@, [fn |-> "searchPatientsByName",
                                          term |-> s.searchTerm]),
                   !.ev = "search"]

\* The i-th awaited call resolved with the rows rs.
RequestResolvedState(s, i, rs) ==
  [s EXCEPT !.patients = rs, !.isLoading = FALSE,
            !.pending = RemoveAt(@, i), !.ev = "resolved"]

\* `Failed to load patient data: ${error.message || 'Unknown error'}` and
\* its search twin.
FetchErrorText(fn, err) ==
  << IF fn = "getAllPatients" THEN "Failed to load patient data: "
                               ELSE "Failed to search patients: ",
     IF err.message # "" THEN err.message ELSE "Unknown error" >>

\* The i-th awaited call rejected with err.
RequestRejectedState(s, i, err) ==
  [s EXCEPT !.fetchError = << FetchErrorText(s.pending[i].fn, err) >>,
            !.isLoading = FALSE, !.pending = RemoveAt(@, i),
            !.ev = "rejected"]

\* new Date(created_at).toLocaleString(): a text, no longer a timestamp.
ToLocaleString(t) == << "locale", t >>

\* The keys of an exported object, in the order spread and literal give.
ExportKeys ==
  << "first_name", "last_name", "date_of_birth", "gender", "email", "phone",
     "address", "height_cm", "weight_kg", "allergies", "medical_notes",
     "created_at" >>

\* An export that only reformats created_at and keeps the id.
ExportPatient_keepId(r) == [r EXCEPT !.created_at = ToLocaleString(@)]

\* ({ id, created_at, ...rest }) => ({ ...rest, created_at: ... })
ExportPatient(r) ==
  [k \in Range(ExportKeys) |->
     IF k = "created_at" THEN ToLocaleString(r.created_at) ELSE r[k]]

\* JSON.stringify of one value: a number (the id, REAL columns), null, or
\* a string.
JsonValue(k, v) ==
  IF k = "id" THEN << "number", v >>
  ELSE IF v = NULL THEN << "null" >>
  ELSE IF k \in NumericFields THEN << "number", v >>
  ELSE << "string", v >>

\* JSON.stringify of one exported object: its members in key order.
JsonObject(o) ==
  LET keys == SelectSeq(ExportKeys, LAMBDA k : k \in DOMAIN o) \o
              (IF "id" \in DOMAIN o THEN << "id" >> ELSE << >>)
  IN [i \in 1..Len(keys) |-> << keys[i], JsonValue(keys[i], o[keys[i]]) >>]

\* JSON.stringify(exportPatients, null, 2)
JsonStringify(os) == [i \in 1..Len(os) |-> JsonObject(os[i])]

\* JSON.parse of one value.
JsonParseValue(tok) == IF tok[1] = "null" THEN NULL ELSE tok[2]

\* JSON.parse of the document: a list of objects.
JsonParse(doc) ==
  [i \in 1..Len(doc) |->
     [k \in { doc[i][j][1] : j \in 1..Len(doc[i]) } |->
        LET j == CHOOSE j \in 1..Len(doc[i]) : doc[i][j][1] = k
        IN JsonParseValue(doc[i][j][2])]]

\* downloadPatientData(): nothing for an empty listing, else the document.
DownloadState(s) ==
  IF Len(s.patients) = 0 THEN [s EXCEPT !.ev = "download"]
  ELSE [s EXCEPT !.exported =
                   << JsonStringify([i \in 1..Len(s.patients) |->
                                       ExportPatient(s.patients[i])]) >>,
                 !.ev = "download"]

\* What the user types into the search box.
RecordsTerms == { <<>>, <<" ">>, <<"a">>, <<" ", "b">> }

\* ---------------------------------------------------------------- PatientQuery
\* What the query console renders for a provider state.
ConsoleView(prov) ==
  IF prov.isLoading \/ ~prov.isInitialized THEN "loading"
  ELSE IF prov.error # <<>> THEN "failed"
  ELSE "main"

\* queryExamples[0].query and queryExamples[2].query; an editor text is a
\* tuple whose elements are white space or a whole statement.
ExampleBasic ==
  << "SELECT id, first_name, last_name, gender, date_of_birth FROM patients LIMIT 10;" >>
ExampleGenderCount ==
  << "SELECT gender, COUNT(*) as patient_count FROM patients GROUP BY gender ORDER BY gender;" >>
QueryExamples == { ExampleBasic, ExampleGenderCount }

\* useState<string>(queryExamples[0].query)
DefaultQuery == ExampleBasic

\* What the user types into the editor.
ConsoleTexts == { <<>>, <<" ">>, << DeleteStmt >>, DefaultQuery }

\* The page's useState cells; `pending` are the executeQuery calls it
\* awaits, `calls` every executeQuery call it has made with the caller that
\* made it, `deps` the dependency values of the auto-execute effect at its
\* last run (<<>>: it has not run), `ev` the handler that ran last.
InitialConsole ==
  [sqlQuery |-> DefaultQuery, queryResult |-> <<>>,
   queryExecutionError |-> <<>>, isExecuting |-> FALSE, pending |-> <<>>,
   calls |-> <<>>, deps |-> <<>>, ev |-> "mount"]

\* executeCustomQuery(q) up to its await, called by `by`.
ExecuteCustomQueryState(s, q, by) ==
  IF Trim(q) = <<>>
    THEN [s EXCEPT !.queryResult = <<>>, !.queryExecutionError = <<>>]
    ELSE [s EXCEPT !.isExecuting = TRUE, !.queryResult = <<>>,
                   !.queryExecutionError = <<>>,
                   !.pending = Append(@, [id |-> Len(s.calls) + 1, q |-> q]),
                   !.calls = Append(@, [q |-> q, by |-> by])]

\* [isInitialized, dbLoading, queryResult, sqlQuery]
EffectDeps(prov, s) ==
  << prov.isInitialized, prov.isLoading, s.queryResult, s.sqlQuery >>

\* The effect is to run after a render in which a dependency changed.
EffectDue(prov, s) == s.deps # << EffectDeps(prov, s) >>

\* The body of the auto-execute effect.
AutoExecuteState(prov, s) ==
  LET t == [s EXCEPT !.deps = << EffectDeps(prov, s) >>, !.ev = "effect"]
  IN IF prov.isInitialized /\ ~prov.isLoading /\ s.queryResult = <<>>
       THEN ExecuteCustomQueryState(t, s.sqlQuery, "effect")
       ELSE t

\* handleQueryChange / the editor's Clear button: setSqlQuery(text).
HandleQueryChangeState(s, text) ==
  [s EXCEPT !.sqlQuery = text, !.ev = "type"]

\* The Run Query button: executeCustomQuery(sqlQuery).
RunQueryState(s) ==
  [ExecuteCustomQueryState(s, s.sqlQuery, "run") EXCEPT !.ev = "run"]

\* handleLoadExample(q): setSqlQuery(q); executeCustomQuery(q).
HandleLoadExampleState(s, q) ==
  [ExecuteCustomQueryState([s EXCEPT !.sqlQuery = q], q, "example")
     EXCEPT !.ev = "example"]

\* The i-th awaited executeQuery resolved with the envelope env: try, then
\* finally.  The result object is a new one for every call.
QuerySettledState(s, i, env) ==
  [s EXCEPT !.queryResult = << [call |-> s.pending[i].id, env |-> env] >>,
            !.queryExecutionError =
               IF ~env.success /\ env.error # <<>> THEN env.error ELSE @,
            !.isExecuting = FALSE,
            !.pending = RemoveAt(@, i),
            !.ev = "settled"]

\* ---------------------------------------------------------------- state
VARIABLES
  db,            \* module variable `db`: 0 is null, else the connection
  conns,         \* connections constructed so far (new PGliteWorker)
  schemaStarts,  \* how many times initSchema was started
  schemaDone,    \* connections on which initSchema ran to its end
  catalog,       \* stored schema: table present, migrated columns, index
  rows,          \* stored rows of patients
  nextId,        \* next value of the SERIAL sequence
  clock,         \* CURRENT_TIMESTAMP of the next insert
  usedIds,       \* every id the table has ever held
  faults,        \* faults injected so far
  pc,            \* per caller: "idle", "schema" (inside initSchema), "query"
  step,          \* per caller inside initSchema: the statement in flight
  op,            \* per caller: the operation in flight
  arg,           \* per caller: its argument
  conn,          \* per caller: the connection it constructed or was handed
  query,         \* per caller: the data statement in flight
  last,          \* the call that settled most recently and its outcome
  prevFailed,    \* an initDatabase call rejected and no call has entered since
  formData,      \* useForm: the field values
  errors,        \* useForm: field name -> message (or Undefined)
  isSubmitting,  \* useForm: the submitting flag
  submitSuccess, \* useForm: the success flag
  inflight,      \* submit callbacks invoked and not yet settled
  timers,        \* success-clear timers set and not yet fired
  formEv,        \* what happened to the controller last
  candidate,     \* the record handed to validatePatientForm
  verdict,       \* what validatePatientForm returned for it
  provider,      \* DatabaseProvider's state
  records,       \* the PatientRecords page's state
  console        \* the query console page's state

vars == << db, conns, schemaStarts, schemaDone, catalog, rows, nextId, clock,
           usedIds, faults, pc, step, op, arg, conn, query, last,
           prevFailed, formData, errors, isSubmitting, submitSuccess,
           inflight, timers, formEv, candidate, verdict, provider,
           records, console >>

pageVars == << provider, records, console >>

formVars == << formData, errors, isSubmitting, submitSuccess, inflight,
               timers, formEv >>
validationVars == << candidate, verdict >>
dataVars == << db, conns, schemaStarts, schemaDone, catalog, rows, nextId,
               clock, usedIds, faults, pc, step, op, arg, conn, query, last,
               prevFailed >>

storeVars == << catalog, rows, nextId, clock, usedIds >>
connVars == << db, conns, schemaStarts, schemaDone >>

\* A row written by the original release: the migrated columns hold nothing.
LegacyRow ==
  [id |-> 1, first_name |-> <<"B">>, last_name |-> <<"a">>,
   date_of_birth |-> <<"1">>, gender |-> <<"a">>, email |-> NULL,
   phone |-> NULL, address |-> NULL, height_cm |-> NULL, weight_kg |-> NULL,
   allergies |-> NULL, medical_notes |-> NULL, created_at |-> 1]

\* The storage a tab may find: nothing, a table of the original release,
\* or the current schema.
InitialStores ==
  { [catalog |-> [table |-> FALSE, cols |-> {}, index |-> FALSE],
     rows |-> {}, nextId |-> 1],
    [catalog |-> [table |-> TRUE, cols |-> {}, index |-> FALSE],
     rows |-> {LegacyRow}, nextId |-> 2],
    [catalog |-> [table |-> TRUE, cols |-> MigratedCols, index |-> TRUE],
     rows |-> {}, nextId |-> 1] }

NoCall ==
  [op |-> "none", arg |-> <<>>,
   out |-> Outcome("none", 0, <<>>, FALSE, <<>>, ""), cause |-> NoCause]

\* The data-access layer of a freshly loaded page over the storage st.
InitData(st) ==
  /\ db = 0
  /\ conns = {}
  /\ schemaStarts = 0
  /\ schemaDone = {}
  /\ catalog = st.catalog
  /\ rows = st.rows
  /\ nextId = st.nextId
  /\ clock = st.nextId
  /\ usedIds = { r.id : r \in st.rows }
  /\ faults = 0
  /\ pc = [p \in Procs |-> "idle"]
  /\ step = [p \in Procs |-> 0]
  /\ op = [p \in Procs |-> "none"]
  /\ arg = [p \in Procs |-> <<>>]
  /\ conn = [p \in Procs |-> 0]
  /\ query = [p \in Procs |-> NoQuery]
  /\ last = NoCall
  /\ prevFailed = FALSE

\* useForm's four useState initialisers; nothing in flight.
InitForm ==
  /\ formData = InitialFormState.formData
  /\ errors = InitialFormState.errors
  /\ isSubmitting = InitialFormState.isSubmitting
  /\ submitSuccess = InitialFormState.submitSuccess
  /\ inflight = 0
  /\ timers = 0
  /\ formEv = "mount"

\* validatePatientForm has not been called: verdict is the empty tuple,
\* and the one-element tuple of the returned mapping afterwards.
NotRun == <<>>
InitValidation ==
  /\ candidate = InitialFormData
  /\ verdict = NotRun

\* The provider and the records page as mounted.
InitPages ==
  /\ provider = InitialProvider
  /\ records = InitialRecords
  /\ console = InitialConsole

Init ==
  /\ \E st \in InitialStores : InitData(st)
  /\ InitForm
  /\ InitValidation
  /\ InitPages

\* Caller p's call of o(a) settles with `out`; it is idle again.
Settle(p, o, a, out, cause) ==
  /\ last' = [op |-> o, arg |-> a, out |-> out, cause |-> cause]
  /\ pc' = [pc EXCEPT ![p] = "idle"]
  /\ step' = [step EXCEPT ![p] = 0]
  /\ op' = [op EXCEPT ![p] = "none"]
  /\ arg' = [arg EXCEPT ![p] = <<>>]
  /\ conn' = [conn EXCEPT ![p] = 0]
  /\ query' = [query EXCEPT ![p] = NoQuery]

\* Caller p, holding connection c, sends the statement of o(a).
SendQuery(p, o, a, c) ==
  /\ pc' = [pc EXCEPT ![p] = "query"]
  /\ step' = [step EXCEPT ![p] = 0]
  /\ op' = [op EXCEPT ![p] = o]
  /\ arg' = [arg EXCEPT ![p] = a]
  /\ conn' = [conn EXCEPT ![p] = c]
  /\ query' = [query EXCEPT ![p] = QueryOf(o, a)]
  /\ UNCHANGED last

\* ---------------------------------------------------------------- initDatabase
\* `new Worker(...)` or `new PGliteWorker(...)` throws: the catch rethrows,
\* db stays null.
ConstructFails(p, o, a) ==
  /\ DbIsUnset(db)
  /\ faults < MaxFaults
  /\ \E w \in {"worker", "connection"}, m \in FaultMessages :
       Settle(p, o, a, OnFailure(o, [message |-> m]),
              [where |-> w, message |-> m])
  /\ faults' = faults + 1
  /\ prevFailed' = TRUE
  /\ UNCHANGED << formVars, validationVars, pageVars >>
  /\ UNCHANGED << connVars, storeVars >>

\* db = new PGliteWorker(worker); initSchema(db) sends its first statement
\* and the call waits for it.
ConstructOk(p, o, a) ==
  /\ DbIsUnset(db)
  /\ LET c == Cardinality(conns) + 1 IN
       /\ db' = c
       /\ conns' = conns \cup {c}
       /\ conn' = [conn EXCEPT ![p] = c]
  /\ schemaStarts' = schemaStarts + 1
  /\ pc' = [pc EXCEPT ![p] = "schema"]
  /\ step' = [step EXCEPT ![p] = 1]
  /\ op' = [op EXCEPT ![p] = o]
  /\ arg' = [arg EXCEPT ![p] = a]
  /\ prevFailed' = FALSE
  /\ UNCHANGED << formVars, validationVars, pageVars >>
  /\ UNCHANGED << schemaDone, storeVars, faults, query, last >>

\* db is set: `return db` without touching worker or schema.
ReturnCached(p, o, a) ==
  /\ ~DbIsUnset(db)
  /\ IF o = "init"
       THEN Settle(p, o, a, InitResolved(db), NoCause)
       ELSE SendQuery(p, o, a, db)
  /\ prevFailed' = FALSE
  /\ UNCHANGED << formVars, validationVars, pageVars >>
  /\ UNCHANGED << connVars, storeVars, faults >>

\* An idle caller calls o(a): every operation starts with initDatabase(),
\* whose body runs up to its first await in the caller's own turn.
InitDatabaseEnter(p, o, a) ==
  /\ pc[p] = "idle"
  /\ \/ ConstructFails(p, o, a)
     \/ ConstructOk(p, o, a)
     \/ ReturnCached(p, o, a)

\* One statement of initSchema fails: initDatabase's catch rethrows.  db
\* keeps the connection it was given before the await.
SchemaStepFails(p) ==
  /\ pc[p] = "schema"
  /\ \E m \in FaultMessages :
       LET injected == SchemaError(step[p], catalog) = ""
           e == [message |-> IF injected THEN m
                             ELSE SchemaError(step[p], catalog)]
       IN /\ injected => faults < MaxFaults
          /\ ~injected => m = ""
          /\ faults' = IF injected THEN faults + 1 ELSE faults
          /\ Settle(p, op[p], arg[p], OnFailure(op[p], e),
                    [where |-> "schema", message |-> e.message])
  /\ prevFailed' = TRUE
  /\ UNCHANGED << formVars, validationVars, pageVars >>
  /\ UNCHANGED << connVars, storeVars >>

\* One statement of initSchema succeeds; after the last one initDatabase
\* returns db and the operation goes on.
SchemaStepOk(p) ==
  /\ pc[p] = "schema"
  /\ SchemaError(step[p], catalog) = ""
  /\ catalog' = SchemaEffect(step[p], catalog)
  /\ IF step[p] = LastSchemaStep
       THEN /\ schemaDone' = schemaDone \cup {conn[p]}
            /\ UNCHANGED prevFailed
            /\ IF op[p] = "init"
                 THEN Settle(p, op[p], arg[p], InitResolved(db), NoCause)
                 ELSE SendQuery(p, op[p], arg[p], db)
       ELSE /\ step' = [step EXCEPT ![p] = NextSchemaStep(step[p], catalog)]
            /\ UNCHANGED << schemaDone, prevFailed, pc, op, arg, conn, query,
                            last >>
  /\ UNCHANGED << formVars, validationVars, pageVars >>
  /\ UNCHANGED << db, conns, schemaStarts, rows, nextId, clock, usedIds,
                  faults >>

CallInitDatabase(p) == InitDatabaseEnter(p, "init", <<>>)

\* ---------------------------------------------------------------- operations
CallRegisterPatient(p) ==
  /\ nextId <= MaxRows
  /\ \E d \in PatientInputs : InitDatabaseEnter(p, "register", d)

CallGetAllPatients(p) == InitDatabaseEnter(p, "getAll", <<>>)

CallSearchPatientsByName(p) ==
  \E t \in SearchTerms : InitDatabaseEnter(p, "search", t)

CallExecuteQuery(p) ==
  \E q \in Statements : InitDatabaseEnter(p, "exec", q)

\* The data statement in flight meets a storage fault.
QueryFails(p) ==
  /\ pc[p] = "query"
  /\ faults < MaxFaults
  /\ \E m \in FaultMessages :
       Settle(p, op[p], arg[p], OnFailure(op[p], [message |-> m]),
              [where |-> "query", message |-> m])
  /\ faults' = faults + 1
  /\ UNCHANGED << formVars, validationVars, pageVars >>
  /\ UNCHANGED << connVars, storeVars, prevFailed >>

\* registerPatient's INSERT reaches the engine.
RegisterQuery(p) ==
  /\ pc[p] = "query" /\ op[p] = "register"
  /\ LET b == query[p].params
         id == SerialId(nextId, rows)
         msg == InsertError(b, catalog, rows, id)
     IN IF msg # ""
          THEN /\ Settle(p, op[p], arg[p],
                         OnFailure(op[p], [message |-> msg]),
                         [where |-> "query", message |-> msg])
               /\ UNCHANGED << rows, nextId, clock, usedIds >>
          ELSE /\ rows' = InsertRow(rows, StoredRow(b, id, clock))
               /\ nextId' = nextId + 1
               /\ clock' = clock + 1
               /\ usedIds' = usedIds \cup {id}
               /\ Settle(p, op[p], arg[p], RegisterResolved, NoCause)
  /\ UNCHANGED << formVars, validationVars, pageVars >>
  /\ UNCHANGED << connVars, catalog, faults, prevFailed >>

\* A row-returning data statement settles with the sequence rs, or with the
\* engine's error when the table is missing.
SelectSettles(p, rs) ==
  IF ~catalog.table
    THEN Settle(p, op[p], arg[p],
                OnFailure(op[p],
                          [message |-> "relation \"patients\" does not exist"]),
                [where |-> "query",
                 message |-> "relation \"patients\" does not exist"])
    ELSE Settle(p, op[p], arg[p], RowsResolved(rs), NoCause)

\* getAllPatients' SELECT reaches the engine.
GetAllQuery(p) ==
  /\ pc[p] = "query" /\ op[p] = "getAll"
  /\ \E rs \in OrderedResults(rows) : SelectSettles(p, rs)
  /\ UNCHANGED << formVars, validationVars, pageVars >>
  /\ UNCHANGED << connVars, storeVars, faults, prevFailed >>

\* searchPatientsByName's SELECT reaches the engine.
SearchQuery(p) ==
  /\ pc[p] = "query" /\ op[p] = "search"
  /\ \E rs \in OrderedResults({ r \in rows : SearchWhere(r, query[p].params) }) :
       SelectSettles(p, rs)
  /\ UNCHANGED << formVars, validationVars, pageVars >>
  /\ UNCHANGED << connVars, storeVars, faults, prevFailed >>

\* executeQuery's statement reaches the engine; the envelope is built from
\* its rows or from the error it throws.
ExecuteQueryRun(p) ==
  /\ pc[p] = "query" /\ op[p] = "exec"
  /\ LET sql == query[p].sql
         msg == ConsoleError(sql, catalog)
     IN IF msg # ""
          THEN /\ Settle(p, op[p], arg[p],
                         OnFailure(op[p], [message |-> msg]),
                         [where |-> "query", message |-> msg])
               /\ UNCHANGED rows
          ELSE /\ rows' = ConsoleEffect(sql, rows)
               /\ \E rs \in AnyOrderResults(IF sql = SelectStmt THEN rows ELSE {}) :
                    Settle(p, op[p], arg[p], ExecuteQueryOk(rs), NoCause)
  /\ UNCHANGED << formVars, validationVars, pageVars >>
  /\ UNCHANGED << connVars, catalog, nextId, clock, usedIds, faults,
                  prevFailed >>

\* The connection singleton under concurrent callers: initDatabase itself
\* and a listing racing through it.
Next ==
  \E p \in Procs :
    \/ CallInitDatabase(p)
    \/ CallGetAllPatients(p)
    \/ SchemaStepOk(p)
    \/ SchemaStepFails(p)
    \/ QueryFails(p)
    \/ GetAllQuery(p)

Spec == Init /\ [][Next]_vars

\* The data operations, one call after the other (a single caller).
NextData ==
  \/ CallInitDatabase(1)
  \/ CallRegisterPatient(1)
  \/ CallGetAllPatients(1)
  \/ CallSearchPatientsByName(1)
  \/ CallExecuteQuery(1)
  \/ SchemaStepOk(1)
  \/ SchemaStepFails(1)
  \/ QueryFails(1)
  \/ RegisterQuery(1)
  \/ GetAllQuery(1)
  \/ SearchQuery(1)
  \/ ExecuteQueryRun(1)

SpecData == Init /\ [][NextData]_vars

\* ---------------------------------------------------------------- page loads
\* The page is loaded again: a fresh module instance (`let db = null`), every
\* call of the old page is abandoned; the storage persists.  conns,
\* schemaStarts and schemaDone go on counting across loads.
Reload ==
  /\ Cardinality(conns) < MaxLoads
  /\ db' = 0
  /\ pc' = [p \in Procs |-> "idle"]
  /\ step' = [p \in Procs |-> 0]
  /\ op' = [p \in Procs |-> "none"]
  /\ arg' = [p \in Procs |-> <<>>]
  /\ conn' = [p \in Procs |-> 0]
  /\ query' = [p \in Procs |-> NoQuery]
  /\ last' = NoCall
  /\ prevFailed' = FALSE
  /\ UNCHANGED << formVars, validationVars, pageVars >>
  /\ UNCHANGED << conns, schemaStarts, schemaDone, storeVars, faults >>

\* initSchema over successive page loads, with registrations in between.
NextSchema ==
  \/ CallInitDatabase(1)
  \/ CallRegisterPatient(1)
  \/ SchemaStepOk(1)
  \/ SchemaStepFails(1)
  \/ RegisterQuery(1)
  \/ Reload

SpecSchema == Init /\ [][NextSchema]_vars

\* ---------------------------------------------------------------- useForm
\* The hook's current state, and the state a handler's setState calls leave.
FormState ==
  [formData |-> formData, errors |-> errors, isSubmitting |-> isSubmitting,
   submitSuccess |-> submitSuccess]

SetFormState(s) ==
  /\ formData' = s.formData
  /\ errors' = s.errors
  /\ isSubmitting' = s.isSubmitting
  /\ submitSuccess' = s.submitSuccess

\* The user edits one field.
HandleChange(name, value) ==
  /\ SetFormState(HandleChangeState(FormState, name, value))
  /\ formEv' = "change"
  /\ UNCHANGED << inflight, timers, dataVars, validationVars, pageVars >>

\* The caller updates the values programmatically.
SetFormData(u) ==
  /\ SetFormState(SetFormDataState(FormState, u))
  /\ formEv' = "setData"
  /\ UNCHANGED << inflight, timers, dataVars, validationVars, pageVars >>

\* The form is submitted: validation, and when it passes the callback is
\* invoked with the current values (the hook itself has no guard against a
\* submit while one is in flight).
HandleSubmit ==
  /\ ValidateForm(ValidatePatientForm(formData)) => inflight < MaxInflight
  /\ SetFormState(HandleSubmitState(FormState))
  /\ inflight' = IF ValidateForm(ValidatePatientForm(formData))
                   THEN inflight + 1 ELSE inflight
  /\ formEv' = IF ValidateForm(ValidatePatientForm(formData))
                 THEN "submit" ELSE "invalid"
  /\ UNCHANGED << timers, dataVars, validationVars, pageVars >>

\* `await onSubmitCallback(formData)` returns: success flag, reset of the
\* values, the 3000 ms timer, and the finally block.
CallbackResolves ==
  /\ inflight > 0
  /\ timers < MaxTimers
  /\ SetFormState(SubmitResolvedState(FormState))
  /\ formEv' = "resolved"
  /\ inflight' = inflight - 1
  /\ timers' = timers + 1
  /\ UNCHANGED << dataVars, validationVars, pageVars >>

\* `await onSubmitCallback(formData)` throws: catch logs, finally clears.
CallbackRejects ==
  /\ inflight > 0
  /\ SetFormState(SubmitRejectedState(FormState))
  /\ formEv' = "rejected"
  /\ inflight' = inflight - 1
  /\ UNCHANGED << timers, dataVars, validationVars, pageVars >>

\* A success-clear timer fires, 3000 ms after it was set.
SuccessTimerFires ==
  /\ timers > 0
  /\ SetFormState(SuccessTimerState(FormState))
  /\ formEv' = "timer"
  /\ timers' = timers - 1
  /\ UNCHANGED << inflight, dataVars, validationVars, pageVars >>

\* resetForm() is called.
ResetForm ==
  /\ SetFormState(ResetFormState(FormState))
  /\ formEv' = "reset"
  /\ UNCHANGED << inflight, timers, dataVars, validationVars, pageVars >>

NextForm ==
  \/ \E e \in FormEdits : HandleChange(e[1], e[2])
  \/ \E u \in FormDataArgs : SetFormData(u)
  \/ HandleSubmit
  \/ CallbackResolves
  \/ CallbackRejects
  \/ SuccessTimerFires
  \/ ResetForm

\* The storage the registration page works on: the current schema.
CurrentStore == CHOOSE st \in InitialStores : st.catalog.index

InitFormPage ==
  InitData(CurrentStore) /\ InitForm /\ InitValidation /\ InitPages

SpecForm == InitFormPage /\ [][NextForm]_vars

\* Every callback the page passes settles, and every timer fires.
SpecFormFair ==
  /\ SpecForm
  /\ WF_vars(CallbackResolves \/ CallbackRejects)
  /\ WF_vars(SuccessTimerFires)

\* ---------------------------------------------------------------- validatePatientForm
\* validatePatientForm(candidate) is called; its argument is not modified.
Validate ==
  /\ verdict' = << ValidatePatientForm(candidate) >>
  /\ UNCHANGED << candidate, dataVars, formVars, pageVars >>

NextValidation == Validate

InitValidationInput ==
  /\ InitData(CurrentStore)
  /\ InitForm
  /\ candidate \in Candidates
  /\ verdict = NotRun
  /\ InitPages

SpecValidation == InitValidationInput /\ [][NextValidation]_vars

\* ---------------------------------------------------------------- provider and records page
\* The provider's mount effect starts initializeHealthHubDatabase.
ProviderEffect ==
  /\ provider.phase = "mount"
  /\ provider' = ProviderEffectState(provider)
  /\ UNCHANGED << records, console, dataVars, formVars, validationVars >>

\* The awaited initDatabase() resolves.
ProviderInitResolves ==
  /\ provider.phase = "await"
  /\ provider' = ProviderResolvedState(provider)
  /\ UNCHANGED << records, console, dataVars, formVars, validationVars >>

\* The awaited initDatabase() rejects.
ProviderInitRejects ==
  /\ provider.phase = "await"
  /\ \E m \in FaultMessages :
       provider' = ProviderRejectedState(provider, [message |-> m])
  /\ UNCHANGED << records, console, dataVars, formVars, validationVars >>

\* The page's effect on [isInitialized, dbLoading]: loadPatients() once the
\* database is ready.
RecordsEffect ==
  /\ ~records.effectRan
  /\ Len(records.pending) < MaxPending
  /\ provider.isInitialized /\ ~provider.isLoading
  /\ records' = [LoadPatientsState(records) EXCEPT !.effectRan = TRUE,
                                                  !.ev = "effect"]
  /\ UNCHANGED << provider, console, dataVars, formVars, validationVars >>

\* The user types into the search box.
SetSearchTerm(t) ==
  /\ RecordsView(provider) = "main"
  /\ records' = [records EXCEPT !.searchTerm = t, !.ev = "type"]
  /\ UNCHANGED << provider, console, dataVars, formVars, validationVars >>

\* Search button or Enter; neither is disabled while a call is awaited.
HandleSearch ==
  /\ RecordsView(provider) = "main"
  /\ Len(records.pending) < MaxPending
  /\ records' = HandleSearchState(records)
  /\ UNCHANGED << provider, console, dataVars, formVars, validationVars >>

\* Clear button: setSearchTerm(''), loadPatients().
ClearSearch ==
  /\ RecordsView(provider) = "main"
  /\ Len(records.pending) < MaxPending
  /\ records' = [LoadPatientsState(records) EXCEPT !.searchTerm = <<>>,
                                                  !.ev = "clear"]
  /\ UNCHANGED << provider, console, dataVars, formVars, validationVars >>

\* The rows the pending call asks the engine for.
RequestedRows(req) ==
  IF req.fn = "getAllPatients" THEN rows
  ELSE { r \in rows : SearchWhere(r, SearchParams(req.term)) }

\* An awaited getAllPatients / searchPatientsByName resolves.
RequestResolves ==
  /\ \E i \in 1..Len(records.pending) :
       \E rs \in OrderedResults(RequestedRows(records.pending[i])) :
         records' = RequestResolvedState(records, i, rs)
  /\ UNCHANGED << provider, console, dataVars, formVars, validationVars >>

\* An awaited call rejects.
RequestRejects ==
  /\ \E i \in 1..Len(records.pending) : \E m \in FaultMessages :
       records' = RequestRejectedState(records, i, [message |-> m])
  /\ UNCHANGED << provider, console, dataVars, formVars, validationVars >>

\* Export JSON button.
DownloadPatientData ==
  /\ RecordsView(provider) = "main"
  /\ records' = DownloadState(records)
  /\ UNCHANGED << provider, console, dataVars, formVars, validationVars >>

NextRecords ==
  \/ ProviderEffect
  \/ ProviderInitResolves
  \/ ProviderInitRejects
  \/ RecordsEffect
  \/ \E t \in RecordsTerms : SetSearchTerm(t)
  \/ HandleSearch
  \/ ClearSearch
  \/ RequestResolves
  \/ RequestRejects
  \/ DownloadPatientData

\* Rows found in the storage when the page is opened.
SeedRows ==
  { StoredRow(BindParams(MkPatient(<<"a">>, <<"b">>, <<"1">>, <<"1">>, <<>>)),
              1, 1),
    StoredRow(BindParams(MkPatient(<<"b">>, <<"A", "b">>, <<"0", "1">>,
                                   <<"1">>, <<"a">>)), 2, 2) }

InitRecordsPage ==
  /\ \E rs \in {{}, SeedRows} :
       InitData([catalog |-> CurrentStore.catalog, rows |-> rs,
                 nextId |-> Cardinality(rs) + 1])
  /\ InitForm
  /\ InitValidation
  /\ InitPages

SpecRecords == InitRecordsPage /\ [][NextRecords]_vars

\* ---------------------------------------------------------------- query console page
\* The auto-execute effect runs after a render that changed a dependency,
\* before the page handles anything else (a run whose body makes a call
\* counts against the calls of the visit, a run that makes none does not).
AutoExecuteEffect ==
  /\ EffectDue(provider, console)
  /\ Len(AutoExecuteState(provider, console).calls) <= MaxCalls
  /\ console' = AutoExecuteState(provider, console)
  /\ UNCHANGED << provider, records, dataVars, formVars, validationVars >>

\* The user edits the statement (or clears the editor).
HandleQueryChange(text) ==
  /\ ConsoleView(provider) = "main"
  /\ ~EffectDue(provider, console)
  /\ console' = HandleQueryChangeState(console, text)
  /\ UNCHANGED << provider, records, dataVars, formVars, validationVars >>

\* Run Query, disabled while executing or on a blank statement.
RunQuery ==
  /\ ConsoleView(provider) = "main"
  /\ ~EffectDue(provider, console)
  /\ ~console.isExecuting /\ Trim(console.sqlQuery) # <<>>
  /\ Len(console.calls) < MaxCalls
  /\ console' = RunQueryState(console)
  /\ UNCHANGED << provider, records, dataVars, formVars, validationVars >>

\* The user picks an example.
HandleLoadExample(q) ==
  /\ ConsoleView(provider) = "main"
  /\ ~EffectDue(provider, console)
  /\ Len(console.calls) < MaxCalls
  /\ console' = HandleLoadExampleState(console, q)
  /\ UNCHANGED << provider, records, dataVars, formVars, validationVars >>

\* An awaited executeQuery resolves with its envelope; it never rejects.
ExecuteQuerySettles ==
  /\ ~EffectDue(provider, console)
  /\ \E i \in 1..Len(console.pending) :
       \E env \in {ExecuteQueryOk(<<>>)} \cup
                  {ExecuteQueryCatch([message |-> m]) : m \in FaultMessages} :
         console' = QuerySettledState(console, i, env)
  /\ UNCHANGED << provider, records, dataVars, formVars, validationVars >>

NextConsole ==
  \/ ProviderEffect
  \/ ProviderInitResolves
  \/ ProviderInitRejects
  \/ AutoExecuteEffect
  \/ \E text \in ConsoleTexts : HandleQueryChange(text)
  \/ RunQuery
  \/ \E q \in QueryExamples : HandleLoadExample(q)
  \/ ExecuteQuerySettles

InitConsolePage ==
  /\ InitData([catalog |-> CurrentStore.catalog, rows |-> {}, nextId |-> 1])
  /\ InitForm
  /\ InitValidation
  /\ InitPages

SpecConsole == InitConsolePage /\ [][NextConsole]_vars

TypeOK ==
  /\ db \in 0..Cardinality(conns)
  /\ faults \in 0..MaxFaults
  /\ \A p \in Procs : pc[p] \in {"idle", "schema", "query"}

\* ================================================================ claims
Resolved == last.out.status = "resolved"

\* C1: however concurrent initDatabase calls interleave, at most one
\* connection is ever constructed and initSchema is started at most once;
\* every call that resolves, and every data operation that was handed a
\* connection, holds that one connection, constructed and schema-started
\* exactly once.
C1_SingleConnection ==
  /\ Cardinality(conns) <= 1
  /\ schemaStarts <= 1
  /\ (last.op = "init" /\ Resolved) =>
       (conns = {last.out.conn} /\ schemaStarts = 1)
  /\ \A p \in Procs : pc[p] # "idle" => (conns = {conn[p]} /\ schemaStarts = 1)

\* A second caller's initDatabase resolved while the first caller is still
\* inside initSchema.
C1_Witness ==
  /\ last.op = "init" /\ Resolved
  /\ \E p \in Procs : pc[p] = "schema" /\ step[p] > 1

\* C2: the first initDatabase call to enter after a call rejected attempts
\* construction and schema initialisation again (it enters the `if (!db)`
\* branch and, unless construction itself fails again, starts initSchema)
\* instead of returning the cached connection of the failed attempt.
C2_RetryAfterFailure ==
  [][(prevFailed /\ ~prevFailed') => schemaStarts' = schemaStarts + 1]_vars

\* C3: executeQuery never rejects; it resolves to an envelope in which
\* success=true implies error=null and success=false implies data=[] and a
\* non-null, non-empty error message, whichever step failed.
C3_EnvelopeTotal ==
  last.op = "exec" =>
    /\ Resolved
    /\ last.out.success => last.out.error = <<>>
    /\ ~last.out.success =>
         /\ last.out.data = <<>>
         /\ last.out.error # <<>>
         /\ last.out.error[1] # ""

\* executeQuery settled after initDatabase itself failed inside initSchema
\* with an Error that carries no message.
C3_Witness ==
  /\ last.op = "exec" /\ ~last.out.success
  /\ last.cause.where = "schema" /\ last.cause.message = ""

\* A console statement that writes reaches the engine.
ConsoleWrites ==
  \E p \in Procs :
    /\ pc[p] = "query" /\ op[p] = "exec"
    /\ query[p].sql \in {DeleteStmt, UpdateStmt}
    /\ pc'[p] = "idle"

\* C4 (as claimed): after any operation, executeQuery included, every stored
\* patient row is still stored with unchanged field values.
C4_AppendOnly == [][rows \subseteq rows']_vars

\* C4 (amended): every step other than a DELETE or UPDATE typed into the
\* query console keeps every stored row unchanged - registerPatient,
\* getAllPatients, searchPatientsByName, initSchema and read-only or failing
\* console statements only ever add rows.
C4_AppendOnlyExceptConsoleWrites == [][ConsoleWrites \/ rows \subseteq rows']_vars

\* Two registrations are stored and a listing has run after them.
C4_Witness ==
  /\ Cardinality(rows) = 2 /\ db # 0
  /\ last.op = "getAll" /\ Resolved

\* C5: registerPatient binds NULL for each optional field whose supplied
\* value is the empty string, numeric fields included, and the supplied
\* value otherwise.
C5_EmptyOptionalBoundNull ==
  \A p \in Procs :
    (pc[p] = "query" /\ op[p] = "register") =>
      \A f \in OptionalFields :
        query[p].params[f] = (IF arg[p][f] = <<>> THEN NULL ELSE arg[p][f])

\* C6: when registerPatient(d) resolves, the table holds a new row carrying
\* d's bound fields whose id was never used before and differs from every
\* other row's id, with an id and a created_at that are set; every listing
\* getAllPatients can then return contains that row.
C6_RegisteredRowListed ==
  [][ \A p \in Procs :
        ( /\ pc[p] = "query" /\ op[p] = "register"
          /\ pc'[p] = "idle" /\ last'.out.status = "resolved" ) =>
        \E r \in rows' :
          /\ r \notin rows
          /\ r = StoredRow(BindParams(arg[p]), r.id, r.created_at)
          /\ r.id >= 1 /\ r.created_at >= 1
          /\ r.id \notin usedIds
          /\ \A r2 \in rows' \ {r} : r2.id # r.id
          /\ OrderedResults(rows') # {}
          /\ \A rs \in OrderedResults(rows') : r \in Range(rs)
    ]_vars

\* A registration resolved after rows were deleted: ids handed out earlier
\* are no longer in the table.
C6_Witness ==
  /\ last.op = "register" /\ Resolved
  /\ Cardinality(usedIds) > Cardinality(rows)

\* C7: when the engine rejects the INSERT, registerPatient rejects towards
\* the page with the engine's own message.
C7_EngineMessageSurfaced ==
  (last.op = "register" /\ last.cause.where = "query") =>
    (last.out.status = "rejected" /\ last.out.message = last.cause.message)

\* C8: searchPatientsByName(term) returns exactly the stored rows whose
\* first_name or last_name contains term literally (case-insensitively), in
\* (last_name, first_name) order, also for terms containing % or _.
C8_SearchLiteralSubstring ==
  (last.op = "search" /\ Resolved) =>
    /\ Range(last.out.data) =
         { r \in rows : \/ ContainsFolded(r.first_name, last.arg)
                        \/ ContainsFolded(r.last_name, last.arg) }
    /\ Len(last.out.data) = Cardinality(Range(last.out.data))

\* C9 (as claimed): searchPatientsByName("") returns zero rows whatever the
\* table contains.
C9_EmptyTermNoRows ==
  (last.op = "search" /\ Resolved /\ last.arg = <<>>) => last.out.data = <<>>

\* C9 (amended): searchPatientsByName("") takes the same path as any other
\* term (pattern %%) and returns every stored row, each once.
C9_EmptyTermAllRows ==
  (last.op = "search" /\ Resolved /\ last.arg = <<>>) =>
    /\ Range(last.out.data) = rows
    /\ Len(last.out.data) = Cardinality(rows)

\* A search with the empty term returned two rows.
C9_Witness ==
  /\ last.op = "search" /\ Resolved /\ last.arg = <<>>
  /\ Len(last.out.data) = 2

\* (last_name, first_name) of r1 is not after that of r2, by code point.
NameOrderLeq(r1, r2) ==
  IF r1.last_name = r2.last_name
    THEN ~StrLess(r2.first_name, r1.first_name)
    ELSE StrLess(r1.last_name, r2.last_name)

\* C10: whenever getAllPatients' SELECT runs on an existing table without a
\* storage fault, the call resolves to every stored row exactly once in
\* ascending (last_name, first_name) order whatever the insertion order -
\* the empty sequence, not an error, when no row is stored.
C10_GetAllOrdered ==
  [][ \A p \in Procs :
        ( /\ pc[p] = "query" /\ op[p] = "getAll" /\ pc'[p] = "idle"
          /\ faults' = faults /\ catalog.table ) =>
        /\ last'.out.status = "resolved"
        /\ Range(last'.out.data) = rows
        /\ Len(last'.out.data) = Cardinality(rows)
        /\ \A i, j \in 1..Len(last'.out.data) :
             i < j => NameOrderLeq(last'.out.data[i], last'.out.data[j])
    ]_vars

\* A listing returned two rows in the opposite of their insertion order.
C10_Witness ==
  /\ last.op = "getAll" /\ Resolved
  /\ Len(last.out.data) = 2
  /\ last.out.data[1].id > last.out.data[2].id

\* A step of initSchema inside one page load (statement answered, or failed).
SchemaRunStep(p) == pc[p] = "schema" /\ db' = db

\* C11: initSchema is idempotent.  From every schema state (table absent,
\* original-release table, current schema) a run that meets no storage fault
\* raises no error, and once a run has completed, every statement of a later
\* run leaves the set of columns and indexes exactly as it was.
C11_SchemaIdempotent ==
  [][\A p \in Procs :
       SchemaRunStep(p) =>
         /\ (pc'[p] = "idle" /\ faults' = faults)
              => last'.out.status = "resolved"
         /\ schemaDone # {} => catalog' = catalog]_vars

\* Two runs of initSchema completed, the second on a later page load.
C11_Witness ==
  /\ Cardinality(schemaDone) = 2
  /\ catalog = [table |-> TRUE, cols |-> MigratedCols, index |-> TRUE]
  /\ Resolved /\ last.op = "init"

\* C12: a failure while checking or adding one migrated column does not
\* block the others: when a run of initSchema has ended on a failure at one
\* column's statement, every other migrated column is in the stored schema.
C12_OtherColumnsStillAdded ==
  [][\A p \in Procs :
       (SchemaRunStep(p) /\ step[p] \in 2..9 /\ pc'[p] = "idle"
          /\ last'.out.status # "resolved")
         => (MigratedCols \ {SchemaCol(step[p])}) \subseteq catalog'.cols]_vars

\* C13: initSchema is purely additive.  Every statement of every run,
\* answered or failed, keeps the table, every column and the index that
\* existed before it, and leaves every stored row as it was (the columns it
\* adds hold NULL in the rows that were there).
C13_SchemaAdditive ==
  [][\A p \in Procs :
       SchemaRunStep(p) =>
         /\ catalog.table => catalog'.table
         /\ catalog.cols \subseteq catalog'.cols
         /\ catalog.index => catalog'.index
         /\ rows' = rows
         /\ \A r \in rows', c \in catalog'.cols \ catalog.cols : r[c] = NULL]_vars

\* A run over the original-release table failed part-way: some columns
\* were added, others not, and the row of the original release is intact.
C13_Witness ==
  /\ last.cause.where = "schema"
  /\ catalog.cols # {} /\ catalog.cols # MigratedCols
  /\ rows = {LegacyRow}

\* C14: a submit whose validator result has at least one error stores
\* exactly that result as the errors state, does not invoke the submit
\* callback, and leaves the submitting flag as it was (false whenever no
\* earlier submit is in flight); values and success flag are untouched.
C14_InvalidSubmitAborts ==
  [][(HandleSubmit /\ DOMAIN ValidatePatientForm(formData) # {}) =>
       /\ errors' = ValidatePatientForm(formData)
       /\ inflight' = inflight
       /\ isSubmitting' = isSubmitting
       /\ inflight = 0 => ~isSubmitting'
       /\ formData' = formData /\ submitSuccess' = submitSuccess]_vars

\* first_name was set, the form submitted: errors on last_name (and the
\* other empty required fields), none on first_name, no callback in flight.
C14_Witness ==
  /\ formData.first_name = <<"a">> /\ formData.last_name = <<>>
  /\ "last_name" \in DOMAIN errors /\ errors["last_name"] = ErrLastName
  /\ "first_name" \notin DOMAIN errors
  /\ formEv = "invalid" /\ inflight = 0 /\ ~isSubmitting

\* C15: when the submit callback resolves, the values are reset to the
\* initial defaults and the success flag becomes true; whenever the flag is
\* true a clear timer is pending, and the flag becomes false again without
\* any caller action, once the timer fires.
C15_SuccessResetsThenClears ==
  /\ [][CallbackResolves =>
          (formData' = InitialFormData /\ submitSuccess')]_vars
  /\ [](submitSuccess => timers > 0)
  /\ (submitSuccess ~> ~submitSuccess)

\* A filled-in form was submitted and its callback has resolved.
C15_Witness ==
  /\ formEv = "resolved"
  /\ submitSuccess /\ formData = InitialFormData
  /\ timers = 1 /\ inflight = 0 /\ ~isSubmitting

\* C16: the submitting flag is never stuck.  It is true only while a submit
\* callback is in flight; the settling of a callback, resolved or rejected,
\* sets it false; so once callbacks settle it is false again.
C16_SubmittingCleared ==
  /\ [](isSubmitting => inflight > 0)
  /\ [][(CallbackResolves \/ CallbackRejects) => ~isSubmitting']_vars
  /\ (isSubmitting ~> ~isSubmitting)

\* The only submit in flight was rejected; the flag is false again.
C16_Witness ==
  /\ formEv = "rejected" /\ inflight = 0 /\ ~isSubmitting
  /\ ValidatePatientForm(formData) = NoErrors

\* The message shown for field f ("" when there is none: no key, or a key
\* holding undefined).
ErrorOf(errs, f) ==
  IF f \in DOMAIN errs /\ errs[f] # Undefined THEN errs[f] ELSE ""

\* C17: handleChange(name, value) makes the named field's value `value` and
\* leaves that field without an error, even when the new value is invalid
\* (no validation is run); the values and the errors of all other fields, the
\* submitting flag and the success flag are unchanged.
C17_SetFieldFrame ==
  [][\A e \in FormEdits :
       HandleChange(e[1], e[2]) =>
         /\ formData'[e[1]] = e[2]
         /\ ErrorOf(errors', e[1]) = ""
         /\ \A f \in DOMAIN formData \ {e[1]} :
              /\ formData'[f] = formData[f]
              /\ ErrorOf(errors', f) = ErrorOf(errors, f)
              /\ (f \in DOMAIN errors') = (f \in DOMAIN errors)
         /\ DOMAIN formData' = DOMAIN formData
         /\ isSubmitting' = isSubmitting
         /\ submitSuccess' = submitSuccess
         /\ inflight' = inflight /\ timers' = timers]_vars

\* An edit cleared the error of an invalid field while another field still
\* shows its error.
C17_Witness ==
  /\ formEv = "change"
  /\ \E f, g \in DOMAIN errors :
       /\ errors[f] = Undefined /\ errors[g] = ErrGender
       /\ formData[f] # <<>>

\* C18: in whatever state resetForm() is called, also with a submit in
\* flight or a success-clear timer pending, the state it leaves has the
\* initial values, no errors, submitting false and success false.
C18_ResetRestoresInitial ==
  formEv = "reset" =>
    /\ formData = InitialFormData
    /\ DOMAIN errors = {}
    /\ ~isSubmitting
    /\ ~submitSuccess

\* resetForm() was called while a submit callback was in flight.
C18_Witness ==
  /\ formEv = "reset" /\ inflight > 0
  /\ formData = InitialFormData /\ ~isSubmitting

\* C19: when the submit callback rejects, nothing of the failure reaches
\* the state: the values are kept, the errors mapping is unchanged, the
\* success flag is false, and the submitting flag is back to false.
C19_RejectionLeavesState ==
  [][CallbackRejects =>
       /\ formData' = formData
       /\ errors' = errors
       /\ ~submitSuccess'
       /\ ~isSubmitting']_vars

\* Empty or white space only.
Blank(t) == \A i \in 1..Len(t) : t[i] \in WhiteSpace

\* local@domain.tld: no white space, exactly one "@", something before it,
\* and after it a "." with something on both sides.
LocalAtDomainTld(t) ==
  /\ \A i \in 1..Len(t) : t[i] \notin WhiteSpace
  /\ Cardinality({ i \in 1..Len(t) : t[i] = "@" }) = 1
  /\ LET at == CHOOSE i \in 1..Len(t) : t[i] = "@" IN
       /\ at > 1
       /\ \E j \in (at + 2)..(Len(t) - 1) : t[j] = "."

ExpectedErrorFields(c) ==
  { f \in {"first_name", "last_name", "date_of_birth"} : Blank(c[f]) }
    \cup { f \in {"gender"} : c[f] = <<>> }
    \cup { f \in {"email"} : c[f] # <<>> /\ ~LocalAtDomainTld(c[f]) }

\* C20: validatePatientForm reports an error for a field exactly when
\* first_name, last_name or date_of_birth is empty or white space only,
\* gender is empty, or email is non-empty and not of the form
\* local@domain.tld; it returns the empty mapping when none of these holds,
\* reports on no other field, and leaves its argument alone.
C20_ValidatorExact ==
  verdict # NotRun =>
    /\ DOMAIN verdict[1] = ExpectedErrorFields(candidate)
    /\ \A f \in DOMAIN verdict[1] : verdict[1][f] \notin {"", Undefined}
    /\ ExpectedErrorFields(candidate) = {} => verdict[1] = NoErrors

\* A white-space first name and an email without a top-level domain are
\* reported; the filled fields and the unvalidated phone are not.
C20_Witness ==
  /\ verdict # NotRun
  /\ candidate.first_name = <<" ">> /\ candidate.email = <<"a", "@", "a">>
  /\ candidate.phone = <<"a">> /\ candidate.gender = <<" ">>
  /\ DOMAIN verdict[1] = {"first_name", "email"}

\* C21: for every listed patient the exported object, read back from the
\* JSON document, has no id, carries created_at as the locale text of the
\* listed timestamp, and carries every other field with the listed value
\* (null included); the objects keep the listing's order; an empty listing
\* produces no file.
C21_ExportRoundTrip ==
  [][DownloadPatientData =>
       IF Len(records.patients) = 0
         THEN records'.exported = records.exported
         ELSE LET back == JsonParse(records'.exported[1]) IN
           /\ Len(back) = Len(records.patients)
           /\ \A i \in 1..Len(back) :
                /\ DOMAIN back[i] = DOMAIN records.patients[i] \ {"id"}
                /\ back[i].created_at =
                     ToLocaleString(records.patients[i].created_at)
                /\ \A f \in DOMAIN back[i] \ {"created_at"} :
                     back[i][f] = records.patients[i][f]]_vars

\* Two listed patients, one with a null email and a numeric height, were
\* exported.
C21_Witness ==
  /\ records.ev = "download" /\ records.exported # <<>>
  /\ Len(records.patients) = 2
  /\ records.patients[2].email = NULL
  /\ records.patients[1].height_cm = <<"1">>
  /\ Len(records.exported[1]) = 2

\* C22: the patient listing page never calls searchPatientsByName with a
\* blank term: no awaited searchPatientsByName call carries an empty or
\* whitespace-only term, and a search request made while the search box is
\* blank issues a getAllPatients() call instead.
C22_BlankSearchLoadsAll ==
  /\ [](\A i \in 1..Len(records.pending) :
          records.pending[i].fn = "searchPatientsByName"
            => ~Blank(records.pending[i].term))
  /\ [][(HandleSearch /\ Blank(records.searchTerm)) =>
          /\ Len(records'.pending) = Len(records.pending) + 1
          /\ records'.pending[Len(records'.pending)].fn = "getAllPatients"]_vars

\* A search was requested with a whitespace-only term in the box and the
\* page awaits getAllPatients().
C22_Witness ==
  /\ records.ev = "search"
  /\ records.searchTerm = <<" ">>
  /\ Len(records.pending) = 1
  /\ records.pending[1].fn = "getAllPatients"

\* C25: in the DatabaseProvider, isInitialized = true and error # null
\* never hold together; isLoading is true from mount until initDatabase
\* settles and false from then on; and whenever isLoading is false, exactly
\* one of isInitialized = true and error # null holds.
C25_ProviderStates ==
  /\ ~(provider.isInitialized /\ provider.error # <<>>)
  /\ provider.phase \in {"mount", "await"} => provider.isLoading
  /\ provider.phase = "done" => ~provider.isLoading
  /\ ~provider.isLoading =>
       (provider.isInitialized <=> provider.error = <<>>)

\* initDatabase rejected with an error that has no message: the provider
\* settled on its default error text.
C25_Witness ==
  /\ provider.phase = "done"
  /\ ~provider.isLoading /\ ~provider.isInitialized
  /\ provider.error = << ProviderDefaultError >>

\* C24: in the query console the automatic execution effect makes an
\* executeQuery call only for the initial default query, as the first call
\* of the visit; every later call is the one call of a user-initiated run
\* (Run Query or a loaded example), so no statement is executed again
\* because the result was cleared or the editor text changed.
C24_OnlyInitialAutoRun ==
  \A i \in 1..Len(console.calls) :
    console.calls[i].by = "effect" =>
      (i = 1 /\ console.calls[i].q = DefaultQuery)

\* C26: once the provider has settled with an error and isInitialized =
\* false, the Patient Records page and the Query Console page show their
\* 'Database Connection Failed' view (the provider's state is final, so the
\* view a page shows then is the view it keeps).
C26_FailureViewShown ==
  (provider.phase = "done" /\ provider.error # <<>> /\ ~provider.isInitialized)
    => (RecordsView(provider) = "failed" /\ ConsoleView(provider) = "failed")

\* C23: an initDatabase call resolves only with a connection on which
\* initSchema has completed successfully: no caller, concurrent with the
\* first one or arriving after a failed schema run, is handed a connection
\* whose table, migrated columns or index have not yet been ensured.
C23_ResolvedAfterSchema ==
  (last.op = "init" /\ Resolved) => last.out.conn \in schemaDone

\* The state resetForm() leaves: initial values, no errors, both flags false.
InResetState ==
  /\ formData = InitialFormData
  /\ DOMAIN errors = {}
  /\ ~isSubmitting
  /\ ~submitSuccess

\* C27 as stated: after resetForm() the controller is still in the reset
\* state after any step other than a setField or a submit, the settling
\* of a callback that was in flight and the firing of an earlier timer
\* included.
C27_ResetStays ==
  [][(formEv = "reset" /\ formEv' \notin {"change", "setData", "submit", "invalid"})
       => InResetState']_vars

\* What does hold: with no submit callback in flight, the reset state is
\* kept (with nothing in flight) through every step other than a setField
\* or a submit, the firing of a success-clear timer started earlier
\* included.
ResetStaysWhenIdle ==
  [][(InResetState /\ inflight = 0
        /\ formEv' \notin {"change", "setData", "submit", "invalid"})
       => (InResetState' /\ inflight' = 0)]_vars

\* C28: the success flag of a successful submit is cleared only by that
\* submit's own timer (or by resetForm() or a new submit): when a timer
\* fires while a younger one is pending, which is then the timer of an
\* earlier submit since all run for 3000 ms, the flag keeps its value.
C28_OwnTimerClears ==
  [][(SuccessTimerFires /\ submitSuccess /\ timers > 1)
       => submitSuccess']_vars

\* C29: at most one submit callback invocation is in flight at any time,
\* and a submit while the submitting flag is true invokes none.
C29_SingleInflight ==
  /\ [](inflight <= 1)
  /\ [][(HandleSubmit /\ isSubmitting) => inflight' = inflight]_vars
====
